---- MODULE Spec2Model ----
(***************************************************************************)
(* Model of the mcp-installer process supervisor.                          *)
(*                                                                         *)
(* MCPCommand (src/src/mcp-command.mts) is the command-line controller: a  *)
(* short-lived invocation that keeps the identity store in a file          *)
(* (mcp_processes.json) and reads the registry from                        *)
(* claude_desktop_config.json.  Every await in its code is a point where   *)
(* another invocation may run, so each handler is a sequence of steps, one *)
(* per await, driven by a stack of labels.                                 *)
(*                                                                         *)
(* ServerManager (src/src/server-manager.mts and its notification-aware    *)
(* revision src/unnamed/part_000) is the in-process controller behind the  *)
(* remote tools; it keeps its records in a Map that lives as long as the   *)
(* manager object.                                                         *)
(***************************************************************************)
EXTENDS Integers, Sequences, FiniteSets, TLC

\* ------------------------------------------------------------------ bounds
MaxPid == 2
MaxClock == 4
MaxRuns == 3
MaxHist == 2

Names == {"a", "b"}
Pids == 1..MaxPid
Invs == {1, 2}
NameOrder == <<"a", "b">>

\* ------------------------------------------------------------- state

VARIABLES
  registry,   \* claude_desktop_config.json: mcpServers, name -> entry
  regKey,     \* whether that document has an mcpServers key at all
  cursorDoc,  \* ~/.cursor/mcp.json: mcpServers, name -> entry
  store,      \* mcp_processes.json: sequence of ServerProcess records
  storeDoc,   \* what that document is: a list, missing, unparseable, or
              \* JSON that is no array
  alive,      \* the operating system's process table: pids of live processes
  dirs,       \* install directories that exist on disk
  clock,      \* Date.now(), read when a record is made
  inv,        \* the running invocations of the control program
  runs,       \* command lines entered while others were running
  smServers,  \* ServerManager.servers: Map from name to ServerProcess
  smCache,    \* ServerManager.configCache
  sm,         \* the ServerManager call in progress
  smLog,      \* ServerManager.preferences.notifications (enabled, maxHistory,
              \* types), ServerManager.notifications (list) and
              \* mcp_notifications.json (file)
  hist        \* history: prev, the name the last command started ("": it was no
              \* start); step, how far the start-status-stop-status-stop
              \* sequence on prev has come (0: no such sequence is under way)

vars == <<registry, regKey, cursorDoc, store, storeDoc, alive, dirs, clock, inv, runs,
          smServers, smCache, sm, smLog, hist>>
smv == <<smServers, smCache, sm, smLog>>
cliv == <<cursorDoc, store, storeDoc, dirs, inv, runs, hist>>

\* ------------------------------------------------------- documents

\* One registry entry (MCPConfig.mcpServers[name]): the directory of args[0]
\* and the lastRun timestamp (0: never written).
DirOf == [n \in Names |-> IF n = "a" THEN "d1" ELSE "d2"]
Entry(n) == [dir |-> DirOf[n], lastRun |-> 0]
EmptyCfg == [n \in {} |-> Entry("a")]

\* The directories path.dirname(args[0]) can name: d1/x lies in d1. An entry
\* whose args list is empty has no args[0]: its dir is "".
Paths == {"d1", "d1/x", "d2"}
\* What fs.rmSync(dir, {recursive: true}) removes: dir and all below it.
Under(dir) == IF dir = "d1" THEN {"d1", "d1/x"} ELSE {dir}
\* The directories that exist when dir does.
Up(dir) == IF dir = "d1/x" THEN {"d1", "d1/x"} ELSE {dir}

\* Object.keys(config.mcpServers): the keys in document order.
Keys(cfg) == SelectSeq(NameOrder, LAMBDA n : n \in DOMAIN cfg)

\* processes.find(p => p.serverName === serverName)?.pid || null  (0 is null)
FindPid(procs, name) ==
  LET hits == SelectSeq(procs, LAMBDA p : p.serverName = name)
  IN  IF hits = <<>> THEN 0 ELSE Head(hits).pid

\* processes.filter(p => p.pid !== pid)
FilterPid(procs, pid) == SelectSeq(procs, LAMBDA p : p.pid # pid)

\* processes.filter(p => p.serverName !== server)
FilterName(procs, name) == SelectSeq(procs, LAMBDA p : p.serverName # name)

\* The records of the store that carry a name.
RecordsOf(procs, name) == SelectSeq(procs, LAMBDA p : p.serverName = name)

\* The reduced document a sync builds from the loaded registry.
SelNames == Names \cup {"missing", "all-servers"}
Selections == {<<x>> : x \in SelNames} \cup {<<x, y>> : x \in SelNames, y \in SelNames}
IsSentinel(sel) == Len(sel) = 1 /\ sel[1] = "all-servers"
SelSet(sel) == {sel[k] : k \in DOMAIN sel}
\* The reduced document of a sync that knows no sentinel.
Reduced_NoSentinel(cfg, sel) == [n \in (SelSet(sel) \cap DOMAIN cfg) |-> cfg[n]]
Reduced(cfg, sel) ==
  IF IsSentinel(sel)
  THEN cfg
  ELSE [n \in (SelSet(sel) \cap DOMAIN cfg) |-> cfg[n]]

\* ----------------------------------------------------- invocations

\* One printed row of status or list.
NoRow == [name |-> "", running |-> FALSE, pid |-> 0, health |-> ""]

Idle ==
  [op |-> "idle", arg |-> "", sel |-> <<>>, stack |-> <<>>, name |-> "",
   pid |-> 0, child |-> 0, procs |-> <<>>, cprocs |-> <<>>, cfg |-> EmptyCfg,
   todo |-> <<>>, visited |-> <<>>, cleaned |-> <<>>, running |-> FALSE, health |-> "", out |-> "", err |-> FALSE,
   sigs |-> <<>>, row |-> NoRow, store0 |-> <<>>, reg0 |-> EmptyCfg, evicted |-> {},
   spawns |-> 0, cfgKey |-> TRUE]

Entry0 ==
  [start |-> <<"start_cfg", "done">>,
   stop |-> <<"stop_pid", "done">>,
   restart |-> <<"stop_pid", "restart_wait", "done">>,
   startAll |-> <<"sa_cfg", "done">>,
   stopAll |-> <<"so_cfg", "done">>,
   status |-> <<"st_cfg", "done">>,
   list |-> <<"ls_cfg", "done">>,
   clean |-> <<"cl_cfg", "done">>,
   syncCursor |-> <<"sy_load", "done">>,
   syncClaude |-> <<"sy_load", "done">>]

NameOps == {"start", "stop", "restart"}
BulkOps == {"startAll", "stopAll", "list", "clean"}
SyncOps == {"syncCursor", "syncClaude"}

pc(i) == IF inv[i].stack = <<>> THEN "idle" ELSE Head(inv[i].stack)
Set(i, r) == inv' = [inv EXCEPT ![i] = r]
Goto(r, l) == [r EXCEPT !.stack = <<l>> \o Tail(@)]
Call(r, f, l) == [r EXCEPT !.stack = <<f, l>> \o Tail(@)]
Return(r) == [r EXCEPT !.stack = Tail(@)]
\* An error no handler of the invocation catches: main() prints it and exits.
Abort(r, what) == [r EXCEPT !.stack = <<"done">>, !.out = what, !.err = TRUE]

\* The ServerManager call in progress: its method, argument, position,
\* the pid it works on, what it returned, the signals it sent, the severities
\* it passed to addNotification and the spawns it made.
\* A JavaScript number: NaN, or a value.
NaN == [nan |-> TRUE, val |-> 0]
Num(v) == [nan |-> FALSE, val |-> v]
ZeroUsage == [memory |-> Num(0), cpu |-> Num(0)]
\* What ps did: whether it exited with 0, and the lines it printed, each the
\* sequence of its tokens, each token the sequence of its characters.
NoPs == [ok |-> FALSE, lines |-> <<>>]

SmIdle == [op |-> "idle", name |-> "", pc |-> "idle", pid |-> 0, res |-> "", sigs |-> <<>>,
           notes |-> <<>>, spawns |-> 0, ps |-> NoPs, usage |-> ZeroUsage]
NoServers == [n \in {} |-> [pid |-> 0, startTime |-> 0]]

\* ------------------------------------------------- notification log

Severities == {"info", "warning", "error"}

\* loadPreferences' defaults (maxHistory is 100 there) and an empty history.
DefaultLog ==
  [enabled |-> TRUE, maxHistory |-> MaxHist, types |-> {"warning", "error"},
   list |-> <<>>, file |-> <<>>]

\* addNotification that records whatever it is given.
AddNotification_NoFilter(log, type, name, now) ==
  LET all == <<[type |-> type, serverName |-> name, timestamp |-> now]>> \o log.list
      kept == IF Len(all) > log.maxHistory THEN SubSeq(all, 1, log.maxHistory) ELSE all
  IN  [log EXCEPT !.list = kept, !.file = kept]

\* addNotification: nothing when notifications are disabled or the type is
\* not among the types; else unshift, slice(0, maxHistory) when the list is
\* longer than maxHistory, and saveNotifications.
AddNotification(log, type, name, now) ==
  IF ~log.enabled \/ type \notin log.types
  THEN log
  ELSE LET all == <<[type |-> type, serverName |-> name, timestamp |-> now]>> \o log.list
           kept == IF Len(all) > log.maxHistory THEN SubSeq(all, 1, log.maxHistory) ELSE all
       IN  [log EXCEPT !.list = kept, !.file = kept]

\* The calls a handler makes in a row.
AddNotifications(log, types, name, now) ==
  IF Len(types) = 0 THEN log
  ELSE IF Len(types) = 1 THEN AddNotification(log, types[1], name, now)
  ELSE AddNotification(AddNotification(log, types[1], name, now), types[2], name, now)

DocKinds == {"list", "missing", "unparseable", "object"}

Init0 ==
  /\ \E S \in SUBSET Names : registry = [n \in S |-> Entry(n)]
  /\ regKey \in {TRUE, registry # EmptyCfg}
  /\ cursorDoc = EmptyCfg
  /\ store = <<>>
  /\ alive = {}
  /\ dirs = {DirOf[n] : n \in DOMAIN registry}
  /\ clock = 1
  /\ inv = [i \in Invs |-> Idle]
  /\ runs = 0
  /\ smServers = NoServers
  /\ smCache = registry
  /\ sm = SmIdle
  /\ smLog = DefaultLog
  /\ hist = [prev |-> "", step |-> 0]

Init == Init0 /\ storeDoc = "list"

\* MCPCommand.execute: dispatch of one command line.
Begin(i, op, arg, sel) ==
  /\ inv[i].op = "idle"
  /\ inv' = [inv EXCEPT ![i] =
       [Idle EXCEPT !.op = op, !.arg = arg, !.name = arg, !.sel = sel,
                    !.stack = Entry0[op], !.store0 = store, !.reg0 = registry]]
  /\ UNCHANGED <<hist, smv, registry, regKey, cursorDoc, store, storeDoc, alive, dirs, clock>>

\* The invocation's process ends.
Exit(i) ==
  /\ pc(i) = "done"
  /\ Set(i, Idle)
  /\ UNCHANGED <<smv, runs, registry, regKey, cursorDoc, store, storeDoc, alive, dirs, clock>>

\* History: the name the command that ends started, "" when it was no start.
Remember(i) == hist' = [hist EXCEPT !.prev = IF inv[i].op = "start" THEN inv[i].arg ELSE ""]

\* ------------------------------------------------ operating system

\* A server process exits by itself, or in reaction to a signal it was sent.
ProcExit(p) ==
  /\ p \in alive
  /\ alive' = alive \ {p}
  /\ UNCHANGED <<hist, smv, runs, registry, regKey, cursorDoc, store, storeDoc, dirs, clock, inv>>

\* ------------------------------------- getServerPid, isServerRunning

IsrPid(i) ==
  /\ pc(i) = "isr_pid"
  /\ storeDoc # "object"
  /\ LET r == inv[i]
         p == FindPid(store, r.name)
     IN  Set(i, IF p = 0
                THEN Return([r EXCEPT !.pid = 0, !.running = FALSE])
                ELSE Goto([r EXCEPT !.pid = p], "isr_kill"))
  /\ UNCHANGED <<hist, smv, runs, registry, regKey, cursorDoc, store, storeDoc, alive, dirs, clock>>

\* What process.kill(p, 0) can do: return when p is a live server process;
\* otherwise throw, ESRCH when no process has the pid and EPERM when the pid
\* now belongs to a process of another user.
Signal0(p) == IF p \in alive THEN {"ok"} ELSE {"ESRCH", "EPERM"}

\* isServerRunning that takes a permission error for a sign of life.
IsrKill_PermissionIsAlive(i) ==
  /\ pc(i) = "isr_kill"
  /\ LET r == inv[i]
     IN  \E e \in Signal0(r.pid) :
           Set(i, IF e \in {"ok", "EPERM"}
                  THEN Return([r EXCEPT !.running = TRUE])
                  ELSE Goto(r, "isr_load"))
  /\ UNCHANGED <<hist, smv, runs, registry, regKey, cursorDoc, store, storeDoc, alive, dirs, clock>>

IsrKill(i) ==
  /\ pc(i) = "isr_kill"
  /\ LET r == inv[i]
     IN  \E e \in Signal0(r.pid) :
           Set(i, IF e = "ok"
                  THEN Return([r EXCEPT !.running = TRUE])
                  ELSE Goto(r, "isr_load"))
  /\ UNCHANGED <<hist, smv, runs, registry, regKey, cursorDoc, store, storeDoc, alive, dirs, clock>>

IsrLoad(i) ==
  /\ pc(i) = "isr_load"
  /\ Set(i, Goto([inv[i] EXCEPT !.procs = store], "isr_save"))
  /\ UNCHANGED <<hist, smv, runs, registry, regKey, cursorDoc, store, storeDoc, alive, dirs, clock>>

\* isServerRunning that writes the store back as it loaded it.
IsrSave_NoEvict(i) ==
  /\ pc(i) = "isr_save"
  /\ storeDoc' = "list"
  /\ store' = inv[i].procs
  /\ Set(i, Return([inv[i] EXCEPT !.running = FALSE, !.procs = <<>>]))
  /\ UNCHANGED <<hist, smv, runs, registry, regKey, cursorDoc, alive, dirs, clock>>

IsrSave(i) ==
  /\ pc(i) = "isr_save"
  /\ storeDoc' = "list"
  /\ store' = FilterPid(inv[i].procs, inv[i].pid)
  /\ Set(i, Return([inv[i] EXCEPT !.running = FALSE, !.procs = <<>>,
                                   !.evicted = @ \cup {inv[i].name}]))
  /\ UNCHANGED <<hist, smv, runs, registry, regKey, cursorDoc, alive, dirs, clock>>

\* ------------------------------------------------ checkServerHealth

CshPid(i) ==
  /\ pc(i) = "csh_pid"
  /\ storeDoc # "object"
  /\ LET r == inv[i]
         p == FindPid(store, r.name)
     IN  Set(i, IF p = 0
                THEN Return([r EXCEPT !.pid = 0, !.health = "NOT_RUNNING"])
                ELSE Goto([r EXCEPT !.pid = p], "csh_probe"))
  /\ UNCHANGED <<hist, smv, runs, registry, regKey, cursorDoc, store, storeDoc, alive, dirs, clock>>

\* process.kill(pid, 0), then ps: its second line holds the figures.
CshProbe(i) ==
  /\ pc(i) = "csh_probe"
  /\ LET r == inv[i]
     IN  IF r.pid \notin alive
         THEN Set(i, Return([r EXCEPT !.health = "NOT_RESPONDING"]))
         ELSE \E h \in {"OK", "RUNNING", "NOT_RESPONDING"} :
                Set(i, Return([r EXCEPT !.health = h]))
  /\ UNCHANGED <<hist, smv, runs, registry, regKey, cursorDoc, store, storeDoc, alive, dirs, clock>>

\* ------------------------------------------------------------ start

\* start that does not look the name up in the registry.
StartCfg_NoLookup(i) ==
  /\ pc(i) = "start_cfg"
  /\ Set(i, Call(inv[i], "isr_pid", "start_chk"))
  /\ UNCHANGED <<hist, smv, runs, registry, regKey, cursorDoc, store, storeDoc, alive, dirs, clock>>

\* getServerConfig; an unregistered name throws, which startAll catches.
StartCfg(i) ==
  /\ pc(i) = "start_cfg"
  /\ LET r == inv[i]
     IN  Set(i, IF r.name \in DOMAIN registry
                THEN Call([r EXCEPT !.spawns = 0, !.child = 0], "isr_pid", "start_chk")
                ELSE IF r.op = "startAll"
                     THEN Return([r EXCEPT !.out = "notfound"])
                     ELSE Abort(r, "notfound"))
  /\ UNCHANGED <<hist, smv, runs, registry, regKey, cursorDoc, store, storeDoc, alive, dirs, clock>>

\* start without its liveness check.
StartChk_AlwaysSpawn(i) ==
  /\ pc(i) = "start_chk"
  /\ Set(i, Goto(inv[i], "start_spawn"))
  /\ UNCHANGED <<hist, smv, runs, registry, regKey, cursorDoc, store, storeDoc, alive, dirs, clock>>

StartChk(i) ==
  /\ pc(i) = "start_chk"
  /\ LET r == inv[i]
     IN  Set(i, IF r.running
                THEN Return([r EXCEPT !.out = "already"])
                ELSE Goto(r, "start_spawn"))
  /\ UNCHANGED <<hist, smv, runs, registry, regKey, cursorDoc, store, storeDoc, alive, dirs, clock>>

\* spawn that hands back an identifier no process carries.
SpawnOk_NoProcess(i) ==
  /\ pc(i) = "start_spawn"
  /\ clock < MaxClock
  /\ \E p \in Pids \ alive :
       Set(i, Goto([inv[i] EXCEPT !.child = p, !.spawns = @ + 1], "start_load"))
  /\ UNCHANGED <<hist, smv, runs, registry, regKey, cursorDoc, store, storeDoc, alive, dirs, clock>>

\* spawn(command, args, {detached}): the child gets a pid no live process has.
SpawnOk(i) ==
  /\ pc(i) = "start_spawn"
  /\ clock < MaxClock
  /\ \E p \in Pids \ alive :
       /\ alive' = alive \cup {p}
       /\ Set(i, Goto([inv[i] EXCEPT !.child = p, !.spawns = @ + 1], "start_load"))
  /\ UNCHANGED <<hist, smv, runs, registry, regKey, cursorDoc, store, storeDoc, dirs, clock>>

\* start whose catch tries the spawn once more.
SpawnThrow_Retry(i) ==
  /\ pc(i) = "start_spawn"
  /\ LET r == [inv[i] EXCEPT !.spawns = @ + 1, !.child = 0]
     IN  Set(i, IF r.spawns < 2 THEN r ELSE Return([r EXCEPT !.out = "spawnfail"]))
  /\ UNCHANGED <<hist, smv, runs, registry, regKey, cursorDoc, store, storeDoc, alive, dirs, clock>>

\* spawn throws (a bad argument, an OS error it reports at once): the catch
\* of start logs the failure.
SpawnThrow(i) ==
  /\ pc(i) = "start_spawn"
  /\ Set(i, Return([inv[i] EXCEPT !.out = "spawnfail", !.spawns = @ + 1, !.child = 0]))
  /\ UNCHANGED <<hist, smv, runs, registry, regKey, cursorDoc, store, storeDoc, alive, dirs, clock>>

\* start that survives the 'error' event and goes on with the child it got,
\* which has no pid.
SpawnCrash_NoPid(i) ==
  /\ pc(i) = "start_spawn"
  /\ Set(i, Goto([inv[i] EXCEPT !.spawns = @ + 1, !.child = 0], "start_load"))
  /\ UNCHANGED <<hist, smv, runs, registry, regKey, cursorDoc, store, storeDoc, alive, dirs, clock>>

\* spawn reports the failure by an 'error' event (no such command): nothing
\* listens for it, so the invocation dies before its store read completes.
SpawnCrash(i) ==
  /\ pc(i) = "start_spawn"
  /\ Set(i, Abort([inv[i] EXCEPT !.spawns = @ + 1, !.child = 0], "crash"))
  /\ UNCHANGED <<hist, smv, runs, registry, regKey, cursorDoc, store, storeDoc, alive, dirs, clock>>

\* start that appends its record to the store as it is on disk at the save.
StartSave_OnCurrent(i) ==
  /\ pc(i) = "start_save"
  /\ LET r == inv[i]
     IN  /\ storeDoc' = "list"
         /\ store' = Append(store,
                 [pid |-> r.child, serverName |-> r.name, startTime |-> clock])
         /\ Set(i, Goto([r EXCEPT !.out = "started", !.procs = <<>>,
                                   !.evicted = @ \ {r.name}], "csh_pid"))
  /\ clock' = clock + 1
  /\ UNCHANGED <<hist, smv, runs, registry, regKey, cursorDoc, alive, dirs>>

StartLoad(i) ==
  /\ pc(i) = "start_load"
  /\ Set(i, Goto([inv[i] EXCEPT !.procs = store], "start_save"))
  /\ UNCHANGED <<hist, smv, runs, registry, regKey, cursorDoc, store, storeDoc, alive, dirs, clock>>

\* processes.push({pid, serverName, startTime}); saveProcessStore; then the
\* health check, whose result start drops.
StartSave(i) ==
  /\ pc(i) = "start_save"
  /\ LET r == inv[i]
     IN  /\ storeDoc' = "list"
         /\ store' = Append(r.procs,
                 [pid |-> r.child, serverName |-> r.name, startTime |-> clock])
         /\ Set(i, Goto([r EXCEPT !.out = "started", !.procs = <<>>,
                                   !.evicted = @ \ {r.name}], "csh_pid"))
  /\ clock' = clock + 1
  /\ UNCHANGED <<hist, smv, runs, registry, regKey, cursorDoc, alive, dirs>>

\* ------------------------------------------------------------- stop

\* stop without its early return for a name that has no record.
StopPid_NoGuard(i) ==
  /\ pc(i) = "stop_pid"
  /\ storeDoc # "object"
  /\ Set(i, Goto([inv[i] EXCEPT !.pid = FindPid(store, inv[i].name)], "stop_kill"))
  /\ UNCHANGED <<hist, smv, runs, registry, regKey, cursorDoc, store, storeDoc, alive, dirs, clock>>

StopPid(i) ==
  /\ pc(i) = "stop_pid"
  /\ storeDoc # "object"
  /\ LET r == inv[i]
         p == FindPid(store, r.name)
     IN  Set(i, IF p = 0
                THEN Return([r EXCEPT !.pid = 0, !.out = "notrunning"])
                ELSE Goto([r EXCEPT !.pid = p], "stop_kill"))
  /\ UNCHANGED <<hist, smv, runs, registry, regKey, cursorDoc, store, storeDoc, alive, dirs, clock>>

\* process.kill(pid): SIGTERM; it throws when no such process exists.
StopKill(i) ==
  /\ pc(i) = "stop_kill"
  /\ LET r == inv[i]
     IN  Set(i, IF r.pid \in alive
                THEN Goto([r EXCEPT !.sigs = Append(@, <<r.pid, "SIGTERM">>)], "stop_load")
                ELSE Return([r EXCEPT !.sigs = Append(@, <<r.pid, "ESRCH">>),
                                      !.out = "stopfail"]))
  /\ UNCHANGED <<hist, smv, runs, registry, regKey, cursorDoc, store, storeDoc, alive, dirs, clock>>

StopLoad(i) ==
  /\ pc(i) = "stop_load"
  /\ Set(i, Goto([inv[i] EXCEPT !.procs = store], "stop_save"))
  /\ UNCHANGED <<hist, smv, runs, registry, regKey, cursorDoc, store, storeDoc, alive, dirs, clock>>

\* stop that writes the store back as it loaded it.
StopSave_KeepsRecord(i) ==
  /\ pc(i) = "stop_save"
  /\ storeDoc' = "list"
  /\ store' = inv[i].procs
  /\ Set(i, Return([inv[i] EXCEPT !.out = "stopped", !.procs = <<>>]))
  /\ UNCHANGED <<hist, smv, runs, registry, regKey, cursorDoc, alive, dirs, clock>>

StopSave(i) ==
  /\ pc(i) = "stop_save"
  /\ storeDoc' = "list"
  /\ store' = FilterPid(inv[i].procs, inv[i].pid)
  /\ Set(i, Return([inv[i] EXCEPT !.out = "stopped", !.procs = <<>>]))
  /\ UNCHANGED <<hist, smv, runs, registry, regKey, cursorDoc, alive, dirs, clock>>

\* ---------------------------------------------------------- restart

\* stop has returned; after the one-second pause, start.
RestartWait(i) ==
  /\ pc(i) = "restart_wait"
  /\ Set(i, Goto(inv[i], "start_cfg"))
  /\ UNCHANGED <<hist, smv, runs, registry, regKey, cursorDoc, store, storeDoc, alive, dirs, clock>>

\* ------------------------------------------------ startAll, stopAll

StartAllCfg(i) ==
  /\ pc(i) = "sa_cfg"
  /\ Set(i, Goto([inv[i] EXCEPT !.cfg = registry, !.cfgKey = regKey, !.todo = Keys(registry)], "sa_next"))
  /\ UNCHANGED <<hist, smv, runs, registry, regKey, cursorDoc, store, storeDoc, alive, dirs, clock>>

StartAllNext(i) ==
  /\ pc(i) = "sa_next"
  /\ LET r == inv[i]
     IN  Set(i, IF r.todo = <<>>
                THEN Return(r)
                ELSE Call([r EXCEPT !.name = Head(r.todo), !.todo = Tail(r.todo),
                                    !.visited = Append(@, Head(r.todo))],
                          "start_cfg", "sa_next"))
  /\ UNCHANGED <<hist, smv, runs, registry, regKey, cursorDoc, store, storeDoc, alive, dirs, clock>>

StopAllCfg(i) ==
  /\ pc(i) = "so_cfg"
  /\ Set(i, Goto([inv[i] EXCEPT !.cfg = registry, !.cfgKey = regKey, !.todo = Keys(registry)], "so_next"))
  /\ UNCHANGED <<hist, smv, runs, registry, regKey, cursorDoc, store, storeDoc, alive, dirs, clock>>

StopAllNext(i) ==
  /\ pc(i) = "so_next"
  /\ LET r == inv[i]
     IN  Set(i, IF r.todo = <<>>
                THEN Return(r)
                ELSE Call([r EXCEPT !.name = Head(r.todo), !.todo = Tail(r.todo),
                                    !.visited = Append(@, Head(r.todo))],
                          "stop_pid", "so_next"))
  /\ UNCHANGED <<hist, smv, runs, registry, regKey, cursorDoc, store, storeDoc, alive, dirs, clock>>

\* ----------------------------------------------------- status, list

StatusCfg(i) ==
  /\ pc(i) = "st_cfg"
  /\ LET r == inv[i]
     IN  Set(i, Goto([r EXCEPT !.cfg = registry, !.cfgKey = regKey,
                               !.todo = IF r.arg # "" THEN <<r.arg>> ELSE Keys(registry)],
                     "st_next"))
  /\ UNCHANGED <<hist, smv, runs, registry, regKey, cursorDoc, store, storeDoc, alive, dirs, clock>>

\* The loop head: a name the loaded config lacks is reported and skipped;
\* config.mcpServers[server] throws when the document has no mcpServers.
StatusNext(i) ==
  /\ pc(i) = "st_next"
  /\ LET r == inv[i]
     IN  Set(i, IF r.todo = <<>>
                THEN Return(r)
                ELSE IF ~r.cfgKey
                THEN Abort(r, "typeerror")
                ELSE IF Head(r.todo) \notin DOMAIN r.cfg
                     THEN [r EXCEPT !.todo = Tail(@), !.out = "notfound"]
                     ELSE Call([r EXCEPT !.name = Head(r.todo), !.todo = Tail(r.todo)],
                               "isr_pid", "st_health"))
  /\ UNCHANGED <<hist, smv, runs, registry, regKey, cursorDoc, store, storeDoc, alive, dirs, clock>>

StatusHealth(i) ==
  /\ pc(i) = "st_health"
  /\ LET r == inv[i]
     IN  Set(i, IF r.running
                THEN Call(r, "csh_pid", "st_row")
                ELSE Goto([r EXCEPT !.health = "N/A"], "st_row"))
  /\ UNCHANGED <<hist, smv, runs, registry, regKey, cursorDoc, store, storeDoc, alive, dirs, clock>>

\* getServerPid, then the row is printed.
StatusRow(i) ==
  /\ pc(i) = "st_row"
  /\ LET r == inv[i]
     IN  Set(i, Goto([r EXCEPT !.row = [name |-> r.name, running |-> r.running,
                                        pid |-> FindPid(store, r.name),
                                        health |-> r.health]],
                     "st_next"))
  /\ UNCHANGED <<hist, smv, runs, registry, regKey, cursorDoc, store, storeDoc, alive, dirs, clock>>

ListCfg(i) ==
  /\ pc(i) = "ls_cfg"
  /\ LET r == inv[i]
     IN  Set(i, IF Keys(registry) = <<>>
                THEN Return([r EXCEPT !.cfg = registry, !.cfgKey = regKey, !.out = "none installed"])
                ELSE Goto([r EXCEPT !.cfg = registry, !.cfgKey = regKey, !.todo = Keys(registry)], "ls_next"))
  /\ UNCHANGED <<hist, smv, runs, registry, regKey, cursorDoc, store, storeDoc, alive, dirs, clock>>

ListNext(i) ==
  /\ pc(i) = "ls_next"
  /\ LET r == inv[i]
     IN  Set(i, IF r.todo = <<>>
                THEN Return(r)
                ELSE Call([r EXCEPT !.name = Head(r.todo), !.todo = Tail(r.todo)],
                          "isr_pid", "ls_row"))
  /\ UNCHANGED <<hist, smv, runs, registry, regKey, cursorDoc, store, storeDoc, alive, dirs, clock>>

ListRow(i) ==
  /\ pc(i) = "ls_row"
  /\ LET r == inv[i]
     IN  Set(i, Goto([r EXCEPT !.row = [name |-> r.name, running |-> r.running,
                                        pid |-> FindPid(store, r.name),
                                        health |-> ""]],
                     "ls_next"))
  /\ UNCHANGED <<hist, smv, runs, registry, regKey, cursorDoc, store, storeDoc, alive, dirs, clock>>

\* ---------------------------------------------- cleanStoppedServers

CleanCfg(i) ==
  /\ pc(i) = "cl_cfg"
  /\ Set(i, Goto([inv[i] EXCEPT !.cfg = registry, !.cfgKey = regKey], "cl_procs"))
  /\ UNCHANGED <<hist, smv, runs, registry, regKey, cursorDoc, store, storeDoc, alive, dirs, clock>>

CleanProcs(i) ==
  /\ pc(i) = "cl_procs"
  /\ Set(i, Goto([inv[i] EXCEPT !.cprocs = store, !.todo = Keys(inv[i].cfg)], "cl_next"))
  /\ UNCHANGED <<hist, smv, runs, registry, regKey, cursorDoc, store, storeDoc, alive, dirs, clock>>

CleanNext(i) ==
  /\ pc(i) = "cl_next"
  /\ LET r == inv[i]
     IN  Set(i, IF r.todo = <<>>
                THEN Goto(r, "cl_savecfg")
                ELSE Call([r EXCEPT !.name = Head(r.todo), !.todo = Tail(r.todo)],
                          "isr_pid", "cl_chk"))
  /\ UNCHANGED <<hist, smv, runs, registry, regKey, cursorDoc, store, storeDoc, alive, dirs, clock>>

\* A server found stopped: its install directory is removed with all below
\* it, and its entry is deleted from the loaded config. path.dirname of a
\* missing args[0] throws before the try, out of cleanStoppedServers.
CleanChk(i) ==
  /\ pc(i) = "cl_chk"
  /\ LET r == inv[i]
     IN  IF r.running
         THEN /\ Set(i, Goto(r, "cl_next"))
              /\ dirs' = dirs
         ELSE IF r.cfg[r.name].dir = ""
         THEN /\ Set(i, Abort(r, "typeerror"))
              /\ dirs' = dirs
         ELSE /\ dirs' = dirs \ Under(r.cfg[r.name].dir)
              /\ Set(i, Goto([r EXCEPT !.cfg = [n \in DOMAIN r.cfg \ {r.name} |-> r.cfg[n]],
                                       !.cleaned = Append(@, r.name)],
                             "cl_write"))
  /\ UNCHANGED <<hist, smv, runs, registry, regKey, cursorDoc, store, storeDoc, alive, clock>>

\* saveProcessStore(processes.filter(p => p.serverName !== server)), from the
\* list cleanStoppedServers loaded at its start.
CleanWrite(i) ==
  /\ pc(i) = "cl_write"
  /\ storeDoc' = "list"
  /\ store' = FilterName(inv[i].cprocs, inv[i].name)
  /\ Set(i, Goto(inv[i], "cl_next"))
  /\ UNCHANGED <<hist, smv, runs, registry, regKey, cursorDoc, alive, dirs, clock>>

\* saveConfig(config)
CleanSaveCfg(i) ==
  /\ pc(i) = "cl_savecfg"
  /\ registry' = inv[i].cfg
  /\ regKey' = inv[i].cfgKey
  /\ Set(i, Goto(inv[i], "cl_savestore"))
  /\ UNCHANGED <<hist, smv, runs, cursorDoc, store, storeDoc, alive, dirs, clock>>

\* saveProcessStore(processes): the list as loaded at the start.
CleanSaveStore(i) ==
  /\ pc(i) = "cl_savestore"
  /\ storeDoc' = "list"
  /\ store' = inv[i].cprocs
  /\ Set(i, Return(inv[i]))
  /\ UNCHANGED <<hist, smv, runs, registry, regKey, cursorDoc, alive, dirs, clock>>

\* ----------------------------- updateCursorConfig, updateClaudeConfig

SyncLoad(i) ==
  /\ pc(i) = "sy_load"
  /\ Set(i, Goto([inv[i] EXCEPT !.cfg = registry, !.cfgKey = regKey], "sy_write"))
  /\ UNCHANGED <<hist, smv, runs, registry, regKey, cursorDoc, store, storeDoc, alive, dirs, clock>>

\* For a selection of names, config.mcpServers[server] throws when the
\* loaded document has no mcpServers; the target is not written.
SyncThrow(i) ==
  /\ pc(i) = "sy_write"
  /\ ~inv[i].cfgKey /\ ~IsSentinel(inv[i].sel)
  /\ Set(i, Abort(inv[i], "typeerror"))
  /\ UNCHANGED <<hist, smv, runs, registry, regKey, cursorDoc, store, storeDoc, alive, dirs, clock>>

\* ~/.cursor/mcp.json is overwritten with the reduced document.
SyncWriteCursor(i) ==
  /\ pc(i) = "sy_write"
  /\ inv[i].cfgKey \/ IsSentinel(inv[i].sel)
  /\ inv[i].op = "syncCursor"
  /\ cursorDoc' = Reduced(inv[i].cfg, inv[i].sel)
  /\ Set(i, Return([inv[i] EXCEPT !.out = "synced"]))
  /\ UNCHANGED <<hist, smv, runs, registry, regKey, store, storeDoc, alive, dirs, clock>>

\* The Claude Desktop target is claude_desktop_config.json, the file
\* loadConfig reads the registry from.
SyncWriteClaude(i) ==
  /\ pc(i) = "sy_write"
  /\ inv[i].cfgKey \/ IsSentinel(inv[i].sel)
  /\ inv[i].op = "syncClaude"
  /\ registry' = Reduced(inv[i].cfg, inv[i].sel)
  /\ regKey' = TRUE
  /\ Set(i, Return([inv[i] EXCEPT !.out = "synced"]))
  /\ UNCHANGED <<hist, smv, runs, cursorDoc, store, storeDoc, alive, dirs, clock>>

\* ---------------------------------------------------- specification

\* The steps of the lifecycle commands.
Step(i) ==
  \/ IsrPid(i) \/ IsrKill(i) \/ IsrLoad(i) \/ IsrSave(i)
  \/ CshPid(i) \/ CshProbe(i)
  \/ StartCfg(i) \/ StartChk(i) \/ SpawnOk(i) \/ SpawnThrow(i) \/ SpawnCrash(i)
  \/ StartLoad(i) \/ StartSave(i)
  \/ StopPid(i) \/ StopKill(i) \/ StopLoad(i) \/ StopSave(i)
  \/ StatusCfg(i) \/ StatusNext(i) \/ StatusHealth(i) \/ StatusRow(i)

BulkStep(i) ==
  \/ RestartWait(i)
  \/ StartAllCfg(i) \/ StartAllNext(i) \/ StopAllCfg(i) \/ StopAllNext(i)
  \/ ListCfg(i) \/ ListNext(i) \/ ListRow(i)
  \/ CleanCfg(i) \/ CleanProcs(i) \/ CleanNext(i) \/ CleanChk(i) \/ CleanWrite(i)
  \/ CleanSaveCfg(i) \/ CleanSaveStore(i)

SyncStep(i) ==
  \/ SyncLoad(i) \/ SyncThrow(i) \/ SyncWriteCursor(i) \/ SyncWriteClaude(i)

\* The lifecycle commands of the command line.
Command(i) ==
  /\ \/ \E op \in NameOps, n \in Names : Begin(i, op, n, <<>>)
     \/ \E op \in BulkOps : Begin(i, op, "", <<>>)
     \/ \E n \in Names \cup {""} : Begin(i, "status", n, <<>>)
  /\ UNCHANGED runs

\* update-cursor-config and update-claude-config.
SyncCommand(i) ==
  /\ \E op \in SyncOps, sel \in Selections : Begin(i, op, "", sel)
  /\ UNCHANGED runs

ConcCommand(i) ==
  /\ runs < MaxRuns
  /\ runs' = runs + 1
  /\ \E op \in {"start", "stop", "status"}, n \in Names : Begin(i, op, n, <<>>)

Env == \E p \in Pids : ProcExit(p)

AllIdle == \A j \in Invs : inv[j].op = "idle"

\* One invocation of the control program at a time: the lifecycle commands.
Next ==
  \/ AllIdle /\ Command(1)
  \/ Step(1)
  \/ BulkStep(1)
  \/ Exit(1) /\ Remember(1)
  \/ Env

Spec == Init /\ [][Next]_vars

\* One invocation at a time: the two sync commands.
NextSync ==
  \/ AllIdle /\ SyncCommand(1)
  \/ SyncStep(1)
  \/ Exit(1) /\ UNCHANGED hist

SpecSync == Init /\ [][NextSync]_vars

\* Two invocations of the control program run concurrently.
NextConc ==
  \/ \E i \in Invs : ConcCommand(i) \/ Step(i) \/ (Exit(i) /\ UNCHANGED hist)
  \/ Env

SpecConc == Init /\ [][NextConc]_vars

\* ---------------------------------------------- failing store writes

\* Spec, SpecConc and SpecScen take every write of mcp_processes.json to
\* succeed.  SpecFault lets fs.promises.writeFile reject, which
\* saveProcessStore passes on to its caller.

\* start: the write rejects after the spawn; the catch of start logs
\* `Failed to start server`.
StartSaveFails(i) ==
  /\ pc(i) = "start_save"
  /\ Set(i, Return([inv[i] EXCEPT !.out = "startfail", !.procs = <<>>]))
  /\ UNCHANGED <<hist, smv, runs, registry, regKey, cursorDoc, store, storeDoc, alive, dirs, clock>>

\* stop: the write rejects after the signal; the catch of stop logs `Failed
\* to stop server`.
StopSaveFails(i) ==
  /\ pc(i) = "stop_save"
  /\ Set(i, Return([inv[i] EXCEPT !.out = "stopfail", !.procs = <<>>]))
  /\ UNCHANGED <<hist, smv, runs, registry, regKey, cursorDoc, store, storeDoc, alive, dirs, clock>>

\* isServerRunning: the write of the eviction rejects inside its catch block,
\* so the rejection leaves isServerRunning: status catches it per server,
\* start does not.
IsrSaveFails(i) ==
  /\ pc(i) = "isr_save"
  /\ LET r == [inv[i] EXCEPT !.procs = <<>>, !.running = FALSE]
     IN  Set(i, IF r.op = "status"
                THEN [r EXCEPT !.stack = <<"st_next", "done">>, !.out = "statuserr"]
                ELSE Abort(r, "writefail"))
  /\ UNCHANGED <<hist, smv, runs, registry, regKey, cursorDoc, store, storeDoc, alive, dirs, clock>>

FaultStep(i) == StartSaveFails(i) \/ StopSaveFails(i) \/ IsrSaveFails(i)

FaultCommand(i) ==
  /\ \E op \in {"start", "stop", "status"}, n \in Names : Begin(i, op, n, <<>>)
  /\ UNCHANGED runs

\* One invocation at a time, on a disk whose writes may fail.
NextFault ==
  \/ AllIdle /\ FaultCommand(1)
  \/ Step(1)
  \/ FaultStep(1)
  \/ Exit(1) /\ UNCHANGED hist
  \/ Env

SpecFault == Init /\ [][NextFault]_vars

\* ------------------------------------------- clean on any registry

\* The registry holds entries of any args: directories that coincide or
\* lie in one another, and empty args lists.
InitClean ==
  /\ \E S \in SUBSET Names :
       registry \in [S -> {[dir |-> d, lastRun |-> 0] : d \in Paths \cup {""}}]
  /\ regKey \in {TRUE, registry # EmptyCfg}
  /\ cursorDoc = EmptyCfg
  /\ store = <<>>
  /\ storeDoc = "list"
  /\ alive = {}
  /\ dirs = UNION {Up(registry[n].dir) : n \in {m \in DOMAIN registry : registry[m].dir # ""}}
  /\ clock = 1
  /\ inv = [i \in Invs |-> Idle]
  /\ runs = 0
  /\ smServers = NoServers
  /\ smCache = registry
  /\ sm = SmIdle
  /\ smLog = DefaultLog
  /\ hist = [prev |-> "", step |-> 0]

CleanCommand(i) ==
  /\ \/ \E op \in {"start", "stop", "status"}, n \in Names : Begin(i, op, n, <<>>)
     \/ Begin(i, "clean", "", <<>>)
  /\ UNCHANGED runs

CleanStep(i) ==
  \/ CleanCfg(i) \/ CleanProcs(i) \/ CleanNext(i) \/ CleanChk(i) \/ CleanWrite(i)
  \/ CleanSaveCfg(i) \/ CleanSaveStore(i)

NextClean ==
  \/ AllIdle /\ CleanCommand(1)
  \/ Step(1)
  \/ CleanStep(1)
  \/ Exit(1) /\ UNCHANGED hist
  \/ Env

SpecClean == InitClean /\ [][NextClean]_vars

\* ------------------------------------- mcp_processes.json at large

\* loadProcessStore returns what JSON.parse returns. When that is no array
\* (an object, null, a number), processes.find of getServerPid is a
\* TypeError: the try of the status loop catches it and logs `Error checking
\* status`, start and stop let it through to main.
GetPidThrows(i) ==
  /\ pc(i) \in {"isr_pid", "stop_pid", "csh_pid"}
  /\ storeDoc = "object"
  /\ LET r == inv[i]
     IN  Set(i, IF r.op = "status"
                THEN [r EXCEPT !.stack = <<"st_next", "done">>, !.out = "storeerror"]
                ELSE Abort(r, "storeerror"))
  /\ UNCHANGED <<hist, smv, runs, registry, regKey, cursorDoc, store, storeDoc, alive, dirs, clock>>

\* The control program finds any document at the path of the store.
InitDoc == Init0 /\ storeDoc \in DocKinds

NextDoc ==
  \/ AllIdle /\ FaultCommand(1)
  \/ Step(1)
  \/ GetPidThrows(1)
  \/ Exit(1) /\ UNCHANGED hist
  \/ Env

SpecDoc == InitDoc /\ [][NextDoc]_vars

\* ---------------------------------------------------- ServerManager

SmBegin(op, n) ==
  /\ sm.op = "idle"
  /\ sm' = [SmIdle EXCEPT !.op = op, !.name = n, !.pc = op]
  /\ UNCHANGED <<cliv, registry, regKey, alive, clock, smServers, smCache, smLog>>

\* The caller has its result.
SmEnd ==
  /\ sm.pc = "done"
  /\ sm' = SmIdle
  /\ UNCHANGED <<cliv, registry, regKey, alive, clock, smServers, smCache, smLog>>

\* new ServerManager(): an empty Map, and the config read from the file.
SmNew ==
  /\ sm.op = "idle"
  /\ smServers' = NoServers
  /\ smCache' = registry
  /\ smLog' = [smLog EXCEPT !.list = smLog.file]
  /\ UNCHANGED <<cliv, registry, regKey, alive, clock, sm>>

Without(m, n) == [k \in DOMAIN m \ {n} |-> m[k]]
With(m, n, v) == [k \in DOMAIN m \cup {n} |-> IF k = n THEN v ELSE m[k]]

\* getServerStatus: the Map's record when its process answers signal 0; a
\* record whose process does not is deleted.
SmStatus ==
  /\ sm.pc = "getServerStatus"
  /\ LET n == sm.name
     IN  IF n \notin DOMAIN smServers
         THEN /\ sm' = [sm EXCEPT !.pc = "done", !.res = "null"]
              /\ smServers' = smServers
         ELSE IF smServers[n].pid \in alive
              THEN /\ sm' = [sm EXCEPT !.pc = "done", !.res = "server",
                                       !.pid = smServers[n].pid]
                   /\ smServers' = smServers
              ELSE /\ sm' = [sm EXCEPT !.pc = "done", !.res = "null"]
                   /\ smServers' = Without(smServers, n)
  /\ UNCHANGED <<cliv, registry, regKey, alive, clock, smCache, smLog>>

\* The addNotification calls of a step of startServer reach the log.
Notified ==
  smLog' = AddNotifications(smLog, SubSeq(sm'.notes, Len(sm.notes) + 1, Len(sm'.notes)),
                            sm.name, clock)

\* startServer up to its spawn: the config lookup and getServerStatus.
SmStartCheck ==
  /\ sm.pc = "startServer"
  /\ LET n == sm.name
     IN  IF n \notin DOMAIN smCache
         THEN /\ sm' = [sm EXCEPT !.pc = "done", !.res = "throw",
                                  !.notes = Append(@, "error")]
              /\ smServers' = smServers
         ELSE IF n \in DOMAIN smServers /\ smServers[n].pid \in alive
              THEN /\ sm' = [sm EXCEPT !.pc = "done", !.res = "existing",
                                       !.pid = smServers[n].pid,
                                       !.notes = Append(@, "warning")]
                   /\ smServers' = smServers
              ELSE /\ sm' = [sm EXCEPT !.pc = "spawn"]
                   /\ smServers' = Without(smServers, n)
  /\ Notified
  /\ UNCHANGED <<cliv, registry, regKey, alive, clock, smCache>>

\* saveConfig(config): the file's mcpServers is replaced by the cache.
SmSaveConfig(cache) == registry' = cache /\ regKey' = TRUE /\ smCache' = cache

\* The spawn gave a child with a pid: servers.set, then updateServerConfig
\* with the lastRun timestamp.
SmSpawnOk ==
  /\ sm.pc = "spawn"
  /\ clock < MaxClock
  /\ \E p \in Pids \ alive :
       /\ alive' = alive \cup {p}
       /\ smServers' = With(smServers, sm.name, [pid |-> p, startTime |-> clock])
       /\ SmSaveConfig([smCache EXCEPT ![sm.name].lastRun = clock])
       /\ sm' = [sm EXCEPT !.pc = "done", !.res = "started", !.pid = p,
                            !.notes = Append(@, "info"), !.spawns = @ + 1]
  /\ Notified
  /\ clock' = clock + 1
  /\ UNCHANGED cliv

\* The spawn rejected, or gave a child without a pid (which startServer
\* notifies and throws): the catch notifies the error and returns null.
SmSpawnFail ==
  /\ sm.pc = "spawn"
  /\ \E nopid \in BOOLEAN :
       sm' = [sm EXCEPT !.pc = "done", !.res = "null", !.spawns = @ + 1,
                        !.notes = @ \o (IF nopid THEN <<"error", "error">> ELSE <<"error">>)]
  /\ Notified
  /\ UNCHANGED <<cliv, registry, regKey, alive, clock, smServers, smCache>>

\* stopServer: no record returns false; else SIGTERM, which throws when the
\* process is gone.
SmStopTerm ==
  /\ sm.pc = "stopServer"
  /\ LET n == sm.name
     IN  IF n \notin DOMAIN smServers
         THEN sm' = [sm EXCEPT !.pc = "done", !.res = "false"]
         ELSE LET p == smServers[n].pid
              IN  IF p \in alive
                  THEN sm' = [sm EXCEPT !.pid = p, !.pc = "wait",
                                        !.sigs = Append(@, <<p, "SIGTERM">>)]
                  ELSE sm' = [sm EXCEPT !.pid = p, !.pc = "done", !.res = "false",
                                        !.sigs = Append(@, <<p, "ESRCH">>)]
  /\ UNCHANGED <<cliv, registry, regKey, alive, clock, smServers, smCache, smLog>>

\* The five seconds of grace have passed.
SmStopWait ==
  /\ sm.pc = "wait"
  /\ sm' = [sm EXCEPT !.pc = "probe", !.sigs = Append(@, <<sm.pid, "wait">>)]
  /\ UNCHANGED <<cliv, registry, regKey, alive, clock, smServers, smCache, smLog>>

\* Signal 0; a process that still answers gets SIGKILL; the record is deleted.
SmStopProbe ==
  /\ sm.pc = "probe"
  /\ LET s == [sm EXCEPT !.pc = "done", !.res = "true"]
     IN  IF sm.pid \in alive
         THEN /\ sm' = [s EXCEPT !.sigs = @ \o << <<sm.pid, "probe_alive">>,
                                                   <<sm.pid, "SIGKILL">> >>]
              /\ alive' = alive \ {sm.pid}
         ELSE /\ sm' = [s EXCEPT !.sigs = Append(@, <<sm.pid, "probe_dead">>)]
              /\ alive' = alive
  /\ smServers' = Without(smServers, sm.name)
  /\ UNCHANGED <<cliv, registry, regKey, clock, smCache, smLog>>

\* The spawn gave a child with a pid, but writeFileSync throws in saveConfig:
\* the record is in the Map and the `started` notification is out when the
\* catch of startServer notifies the error and returns null.  The cache
\* entry was updated in place before the write.
SmSpawnOkSaveFails ==
  /\ sm.pc = "spawn"
  /\ clock < MaxClock
  /\ \E p \in Pids \ alive :
       /\ alive' = alive \cup {p}
       /\ smServers' = With(smServers, sm.name, [pid |-> p, startTime |-> clock])
       /\ sm' = [sm EXCEPT !.pc = "done", !.res = "null", !.pid = p,
                            !.notes = @ \o <<"info", "error">>, !.spawns = @ + 1]
  /\ Notified
  /\ smCache' = [smCache EXCEPT ![sm.name].lastRun = clock]
  /\ clock' = clock + 1
  /\ UNCHANGED <<cliv, registry, regKey>>

SmCall ==
  \E op \in {"startServer", "stopServer", "getServerStatus"}, n \in Names : SmBegin(op, n)

NextSM ==
  \/ SmCall \/ SmEnd \/ SmNew
  \/ SmStatus \/ SmStartCheck \/ SmSpawnOk \/ SmSpawnFail
  \/ SmStopTerm \/ SmStopWait \/ SmStopProbe
  \/ Env

SpecSM == Init /\ [][NextSM]_vars

\* The manager on a disk whose writes may fail.
NextSMFault == NextSM \/ SmSpawnOkSaveFails

SpecSMFault == Init /\ [][NextSMFault]_vars

\* ------------------------------------------------- the log by itself

\* A handler of the manager calls addNotification(type, message, serverName).
LogCall ==
  /\ sm.op = "idle"
  /\ \E t \in Severities, n \in Names :
       sm' = [SmIdle EXCEPT !.op = "addNotification", !.pc = "addNotification",
                            !.name = n, !.notes = <<t>>]
  /\ UNCHANGED <<cliv, registry, regKey, alive, clock, smServers, smCache, smLog>>

\* The body of addNotification; new Date() is later at every call.
LogRecord ==
  /\ sm.pc = "addNotification"
  /\ clock < MaxClock
  /\ smLog' = AddNotification(smLog, sm.notes[1], sm.name, clock)
  /\ sm' = [sm EXCEPT !.pc = "done"]
  /\ clock' = clock + 1
  /\ UNCHANGED <<cliv, registry, regKey, alive, smServers, smCache>>

\* clearNotifications: the list is emptied and saved.
LogClear ==
  /\ sm.op = "idle"
  /\ smLog' = [smLog EXCEPT !.list = <<>>, !.file = <<>>]
  /\ UNCHANGED <<cliv, registry, regKey, alive, clock, smServers, smCache, sm>>

\* updatePreferences({notifications: {...}}): the preferences are replaced
\* and saved; the list is left as it is.
LogUpdatePreferences ==
  /\ sm.op = "idle"
  /\ \E e \in BOOLEAN, m \in 0..MaxHist, ts \in SUBSET Severities :
       smLog' = [smLog EXCEPT !.enabled = e, !.maxHistory = m, !.types = ts]
  /\ UNCHANGED <<cliv, registry, regKey, alive, clock, smServers, smCache, sm>>

NextLog == LogCall \/ LogRecord \/ LogClear \/ LogUpdatePreferences \/ SmEnd \/ SmNew

SpecLog == Init /\ [][NextLog]_vars

\* ===================================================================
\* Properties
\* ===================================================================

Done(i, op) == pc(i) = "done" /\ inv[i].op = op
Kinds(sigs) == {sigs[k][2] : k \in DOMAIN sigs}
\* A signal the operating system accepted.
Issued(sigs) == Kinds(sigs) \cap {"SIGTERM", "SIGKILL"} # {}

\* ------------------------------------------------------------------
\* The sequence start, status, stop, status, stop on one server whose command
\* runs until it is signalled.  Before the sequence any start, stop and status
\* may have run and any process may have exited; the sequence begins at the
\* end of a start that leaves the server's process alive.

ScenOp == <<"status", "stop", "status", "stop">>
NoHist == [prev |-> "", step |-> 0]

ScenCommand ==
  /\ AllIdle
  /\ IF hist.step = 0
     THEN \E op \in {"start", "stop", "status"}, n \in Names : Begin(1, op, n, <<>>)
     ELSE Begin(1, ScenOp[hist.step], hist.prev, <<>>)
  /\ UNCHANGED runs

ScenExit ==
  /\ Exit(1)
  /\ LET r == inv[1]
     IN  IF hist.step = 0
         THEN \/ hist' = NoHist
              \/ /\ r.op = "start" /\ r.out \in {"started", "already"}
                 /\ FindPid(store, r.arg) \in alive
                 /\ hist' = [prev |-> r.arg, step |-> 1]
         ELSE hist' = IF hist.step = Len(ScenOp) THEN NoHist
                      ELSE [hist EXCEPT !.step = @ + 1]

\* The server of the sequence runs until stop has signalled it.
LongRunning(p) ==
  /\ hist.step \in {1, 2}
  /\ FindPid(store, hist.prev) = p
  /\ ~Issued(inv[1].sigs)

ScenEnv == \E p \in Pids : ~LongRunning(p) /\ ProcExit(p)

NextScen ==
  \/ ScenCommand
  \/ Step(1)
  \/ ScenExit
  \/ ScenEnv

SpecScen == Init /\ [][NextScen]_vars

\* ------------------------------------------------------------------

\* C1: in every reachable state, interleaved invocations included, the
\* identity store holds at most one record per server name.
C1_OneRecordPerName ==
  \A n \in Names : Len(RecordsOf(store, n)) <= 1

\* C2 as stated: when start(S) ends and the command before it was start(S)
\* too, S being registered, the store holds exactly one record for S.
C2_StartTwiceExactlyOne ==
  \A i \in Invs :
    (Done(i, "start") /\ hist.prev = inv[i].arg /\ inv[i].arg \in DOMAIN registry)
      => Len(RecordsOf(store, inv[i].arg)) = 1

\* C2 as amended: after start(S), start(S) the store holds at most one record
\* for S, and exactly one when the second start reports S started or already
\* running.
C2_StartTwiceAtMostOne ==
  \A i \in Invs :
    (Done(i, "start") /\ hist.prev = inv[i].arg /\ inv[i].arg \in DOMAIN registry)
      => /\ Len(RecordsOf(store, inv[i].arg)) <= 1
         /\ inv[i].out \in {"started", "already"}
              => Len(RecordsOf(store, inv[i].arg)) = 1

C2_Witness ==
  \E i \in Invs :
    /\ Done(i, "start") /\ hist.prev = inv[i].arg
    /\ inv[i].out = "already"
    /\ Len(RecordsOf(store, inv[i].arg)) = 1

\* C3: once isServerRunning has found the recorded pid of S dead and evicted
\* the record, a lookup of S in the store on disk finds nothing (until a
\* start writes a new record for S).
C3_EvictionDurable ==
  \A i \in Invs : \A n \in inv[i].evicted : FindPid(store, n) = 0

\* C4: when cleanStoppedServers ends, every server it found stopped is absent
\* from the registry on disk and has no record in the store on disk.
C4_CleanRemovesStopped ==
  \A i \in Invs :
    Done(i, "clean") =>
      \A k \in DOMAIN inv[i].cleaned :
        /\ inv[i].cleaned[k] \notin DOMAIN registry
        /\ RecordsOf(store, inv[i].cleaned[k]) = <<>>

\* C5: a sync to either target, with any selection, leaves the registry as it
\* was before the sync.
C5_SyncKeepsRegistry ==
  \A i \in Invs :
    (Done(i, "syncCursor") \/ Done(i, "syncClaude")) => registry = inv[i].reg0

\* The order of a stop that escalates: SIGTERM, the grace interval, the
\* probe, and SIGKILL exactly when the probe found the process alive.
GraceSequence(sigs, p) ==
  \/ sigs = << <<p, "SIGTERM">>, <<p, "wait">>, <<p, "probe_dead">> >>
  \/ sigs = << <<p, "SIGTERM">>, <<p, "wait">>, <<p, "probe_alive">>, <<p, "SIGKILL">> >>

\* C6: a stop of a server with a live record sends SIGTERM, waits the grace
\* interval, probes again, and sends SIGKILL if and only if the probe finds
\* the process alive.
C6_StopGracefulThenForced ==
  \A i \in Invs :
    (Done(i, "stop") /\ Issued(inv[i].sigs)) => GraceSequence(inv[i].sigs, inv[i].pid)

\* The same of ServerManager.stopServer.
SM_StopGracefulThenForced ==
  (sm.pc = "done" /\ sm.op = "stopServer" /\ Issued(sm.sigs))
    => GraceSequence(sm.sigs, sm.pid)

\* C7: when stop(name) has issued a termination signal, no record for name
\* remains in the store when it returns, dead or not the process.
C7_StopRemovesRecord ==
  \A i \in Invs :
    (Done(i, "stop") /\ Issued(inv[i].sigs)) => RecordsOf(store, inv[i].arg) = <<>>

C7_Witness ==
  \E i \in Invs :
    /\ Done(i, "stop") /\ Issued(inv[i].sigs)
    /\ inv[i].pid \in alive
    /\ RecordsOf(store, inv[i].arg) = <<>>

\* The same of ServerManager.stopServer.
SM_StopRemovesRecord ==
  (sm.pc = "done" /\ sm.op = "stopServer" /\ Issued(sm.sigs))
    => sm.name \notin DOMAIN smServers

\* C8: stop(name) that finds a record whose process has exited reports "not
\* running", not a failure.
C8_StopDeadIsNotRunning ==
  \A i \in Invs :
    (Done(i, "stop") /\ inv[i].pid # 0 /\ ~Issued(inv[i].sigs))
      => inv[i].out = "notrunning"

\* C9: stop(S) with no record for S reports "not running", sends no signal
\* and leaves the store as it was.
C9_StopWithoutRecord ==
  \A i \in Invs :
    (Done(i, "stop") /\ RecordsOf(inv[i].store0, inv[i].arg) = <<>>)
      => /\ inv[i].out = "notrunning"
         /\ inv[i].sigs = <<>>
         /\ store = inv[i].store0

C9_Witness ==
  \E i \in Invs :
    /\ Done(i, "stop") /\ RecordsOf(inv[i].store0, inv[i].arg) = <<>>
    /\ inv[i].store0 # <<>>
    /\ inv[i].out = "notrunning"

\* The same of ServerManager.stopServer: false, and no signal.
SM_StopWithoutRecord ==
  (sm.pc = "done" /\ sm.op = "stopServer" /\ sm.pid = 0)
    => sm.res = "false" /\ sm.sigs = <<>>

\* C10: when start(name) has spawned, then on its return the store holds the
\* record of the child and name's registry entry carries a lastRun timestamp.
C10_StartRecordsThenLastRun ==
  \A i \in Invs :
    (Done(i, "start") /\ inv[i].out = "started")
      => /\ \E k \in DOMAIN store :
              store[k].pid = inv[i].child /\ store[k].serverName = inv[i].arg
         /\ inv[i].arg \in DOMAIN registry
         /\ registry[inv[i].arg].lastRun # 0

SM_SpawnFailureReported ==
  (sm.pc = "done" /\ sm.op = "startServer" /\ sm.spawns > 0 /\ sm.res # "started")
    => /\ sm.res = "null"
       /\ \E k \in DOMAIN sm.notes : sm.notes[k] = "error"
       /\ sm.spawns = 1
       /\ sm.name \notin DOMAIN smServers

\* C12: start(name) for a name the registry lacks ends with the NotFound
\* error, which main reports; it has spawned nothing and the store is as it
\* was.
C12_StartUnregistered ==
  \A i \in Invs :
    (Done(i, "start") /\ inv[i].arg \notin DOMAIN inv[i].reg0)
      => /\ inv[i].out = "notfound" /\ inv[i].err
         /\ inv[i].spawns = 0 /\ inv[i].child = 0
         /\ store = inv[i].store0

C12_Witness ==
  \E i \in Invs :
    /\ Done(i, "start") /\ inv[i].arg \notin DOMAIN inv[i].reg0
    /\ inv[i].out = "notfound"
    /\ inv[i].store0 # <<>>

\* The same of ServerManager.startServer: it throws, and the Map is as it was.
SM_StartUnregistered ==
  (sm.pc = "done" /\ sm.op = "startServer" /\ sm.name \notin DOMAIN smCache)
    => sm.res = "throw" /\ sm.spawns = 0

C14_StartStatusStopSequence ==
  LET r == inv[1]
  IN  /\ (hist.step = 1 /\ Done(1, "status"))
           => r.row.name = hist.prev /\ r.row.running /\ r.row.pid # 0
      /\ (hist.step = 3 /\ Done(1, "status"))
           => r.row.name = hist.prev /\ ~r.row.running
      /\ (hist.step = 4 /\ Done(1, "stop"))
           => r.out = "notrunning" /\ ~r.err

C14_Witness ==
  /\ hist.step = 4 /\ Done(1, "stop")
  /\ inv[1].out = "notrunning"
  /\ alive # {}

\* C15: when restart(name) reaches start's spawn, stop has acted (a recorded
\* process was signalled, or the signal was refused) and the store holds no
\* record for name; when it ends having started name, the store holds exactly
\* one record for name, with the pid of the new child, and it is not a record
\* the store held before the restart.
C15_RestartStopsThenStarts ==
  \A i \in Invs :
    inv[i].op = "restart" =>
      /\ pc(i) = "start_spawn" =>
           /\ RecordsOf(store, inv[i].arg) = <<>>
           /\ RecordsOf(inv[i].store0, inv[i].arg) # <<>> => inv[i].sigs # <<>>
      /\ (pc(i) = "done" /\ inv[i].out = "started") =>
           LET recs == RecordsOf(store, inv[i].arg)
           IN  /\ Len(recs) = 1
               /\ recs[1].pid = inv[i].child
               /\ \A k \in DOMAIN inv[i].store0 : inv[i].store0[k] # recs[1]

C15_Witness ==
  \E i \in Invs :
    /\ Done(i, "restart") /\ inv[i].out = "started"
    /\ RecordsOf(inv[i].store0, inv[i].arg) # <<>>
    /\ Issued(inv[i].sigs)
    /\ Len(RecordsOf(store, inv[i].arg)) = 1

\* C16: when startAll or stopAll ends, start or stop has been invoked once
\* for every name of the registry as loaded at its beginning, whatever failed
\* on the way.
C16_BulkVisitsEveryName ==
  \A i \in Invs :
    (Done(i, "startAll") \/ Done(i, "stopAll")) => inv[i].visited = Keys(inv[i].reg0)

\* The same of stopAll alone.
StopAllVisitsEveryName ==
  \A i \in Invs : Done(i, "stopAll") => inv[i].visited = Keys(inv[i].reg0)

\* C17: from the read by which isServerRunning finds a stale record to the
\* save that removes it, no other invocation writes the store, and the save
\* replaces the store the eviction was computed from.
C17_EvictionAtomic ==
  [][\A i \in Invs :
       /\ (pc(i) \in {"isr_load", "isr_save"} /\ inv'[i] = inv[i]) => store' = store
       /\ (pc(i) = "isr_save" /\ inv'[i] # inv[i]) => store = inv[i].procs]_vars

\* C18: every save replaces the whole store with what the saving invocation
\* loaded earlier, plus or minus its own record, whatever the store holds at
\* the time of the save (last writer wins).
C18_LastWriterWins ==
  [][\A i \in Invs :
       (inv'[i] # inv[i] /\ store' # store) =>
          /\ pc(i) = "start_save" =>
               store' = Append(inv[i].procs, [pid |-> inv[i].child, serverName |-> inv[i].name,
                                              startTime |-> clock])
          /\ pc(i) \in {"stop_save", "isr_save"} =>
               store' = FilterPid(inv[i].procs, inv[i].pid)]_vars

\* Two commands were ever entered, start of one server and start of another;
\* both ended having started their servers, and the record of one is missing.
C18_Witness ==
  /\ runs = 2
  /\ \E i, j \in Invs :
       /\ Done(i, "start") /\ inv[i].out = "started"
       /\ Done(j, "start") /\ inv[j].out = "started"
       /\ inv[i].arg # inv[j].arg
       /\ RecordsOf(store, inv[i].arg) = <<>>
       /\ RecordsOf(store, inv[j].arg) # <<>>

\* C19: a record whose process is alive is still held, unchanged, after any
\* step taken while no call of the manager is in progress: the end of one
\* manager object and the construction of the next lose no record.
C19_ManagerRecordSurvives ==
  [][\A n \in DOMAIN smServers :
       (sm.op = "idle" /\ sm'.op = "idle" /\ smServers[n].pid \in alive')
         => n \in DOMAIN smServers' /\ smServers'[n] = smServers[n]]_vars

\* The same of the command line: the end of an invocation leaves the store
\* as it is.
CLI_RecordSurvives ==
  [][\A i \in Invs : (pc(i) = "done" /\ inv'[i].op = "idle") => store' = store]_vars

\* The record of a name that was started last.
Latest(procs, name) ==
  LET recs == RecordsOf(procs, name)
  IN  CHOOSE r \in {recs[k] : k \in DOMAIN recs} :
        \A k \in DOMAIN recs : recs[k].startTime <= r.startTime

\* C20: when the store holds more than one record for a name, a lookup of the
\* name (by isServerRunning, stop or checkServerHealth) resolves to the record
\* started last.
C20_LookupTakesLatest ==
  [][\A i \in Invs :
       (/\ pc(i) \in {"isr_pid", "stop_pid", "csh_pid"}
        /\ inv'[i] # inv[i]
        /\ Len(RecordsOf(store, inv[i].name)) > 1)
         => inv'[i].pid = Latest(store, inv[i].name).pid]_vars

\* C21: when start(name) on a registered server has found the stored record's
\* process alive, it ends reporting the server already running, has spawned
\* nothing, and the store is as it was, the record included.
C21_StartOnAliveIsIdempotent ==
  \A i \in Invs :
    (Done(i, "start") /\ inv[i].running /\ inv[i].arg \in DOMAIN inv[i].reg0)
      => /\ inv[i].out = "already"
         /\ inv[i].spawns = 0 /\ inv[i].child = 0
         /\ store = inv[i].store0
         /\ FindPid(store, inv[i].arg) = inv[i].pid

C21_Witness ==
  \E i \in Invs :
    /\ Done(i, "start") /\ inv[i].running /\ inv[i].out = "already"
    /\ Len(store) = 2 /\ store = inv[i].store0

\* The same of ServerManager.startServer: the record of the Map is returned
\* and nothing is spawned.
SM_StartOnAliveIsIdempotent ==
  (sm.pc = "done" /\ sm.op = "startServer" /\ sm.res = "existing")
    => /\ sm.spawns = 0
       /\ sm.name \in DOMAIN smServers /\ smServers[sm.name].pid = sm.pid

\* C22: when the store write fails after stop has delivered its signal, stop
\* still reports the server stopped; when it fails after start has spawned,
\* start still reports the server started.
C22_OsActionStillReported ==
  \A i \in Invs :
    /\ (Done(i, "stop") /\ Issued(inv[i].sigs)) => inv[i].out = "stopped"
    /\ (Done(i, "start") /\ inv[i].child # 0) => inv[i].out = "started"

\* The same of ServerManager.startServer when the registry write fails after
\* the spawn.
SM_OsActionStillReported ==
  (sm.pc = "done" /\ sm.op = "startServer" /\ sm.spawns > 0 /\ sm.pid # 0)
    => sm.res = "started"

\* The document a sync has written: ~/.cursor/mcp.json, or
\* claude_desktop_config.json.
Target(i) == IF inv[i].op = "syncCursor" THEN cursorDoc ELSE registry
SyncDone(i) == Done(i, "syncCursor") \/ Done(i, "syncClaude")

\* C23: a sync with the selection ["all-servers"] ends without error, and
\* the target document maps exactly the keys the registry had at the sync,
\* each to the registry's entry.
C23_SyncAllMirrorsRegistry ==
  \A i \in Invs :
    (SyncDone(i) /\ IsSentinel(inv[i].sel))
      => ~inv[i].err /\ Target(i) = inv[i].reg0

C23_Witness ==
  \E i \in Invs :
    /\ Done(i, "syncCursor") /\ IsSentinel(inv[i].sel)
    /\ DOMAIN inv[i].reg0 = Names /\ cursorDoc = inv[i].reg0

\* C24: a sync with any other selection ends without error, and the target
\* document maps exactly the selected names that are registered, each to the
\* registry's entry.
C24_SyncSelectionSkipsAbsent ==
  \A i \in Invs :
    (SyncDone(i) /\ ~IsSentinel(inv[i].sel))
      => /\ ~inv[i].err
         /\ Target(i) = [n \in SelSet(inv[i].sel) \cap DOMAIN inv[i].reg0 |-> inv[i].reg0[n]]

\* C24 holds when the registry document has an mcpServers key.
SyncSelectionWithKey ==
  \A i \in Invs :
    (SyncDone(i) /\ ~IsSentinel(inv[i].sel) /\ inv[i].cfgKey)
      => /\ ~inv[i].err
         /\ Target(i) = [n \in SelSet(inv[i].sel) \cap DOMAIN inv[i].reg0 |-> inv[i].reg0[n]]

\* ------------------------------------------------- getResourceUsage

Digits == {"0", "7"}
Chars == Digits \cup {"x"}
DigitVal(c) == IF c = "7" THEN 7 ELSE 0
Tokens == {<<c>> : c \in Chars} \cup {<<c, d>> : c \in Chars, d \in Chars}
Header == <<"%CPU", "%MEM">>
DataLines == {<<>>} \cup {<<t>> : t \in Tokens} \cup {<<t, u>> : t \in Tokens, u \in Tokens}

\* The digits a token starts with, read as a number.
RECURSIVE PrefixVal(_, _)
PrefixVal(tok, acc) ==
  IF tok = <<>> \/ Head(tok) \notin Digits THEN acc
  ELSE PrefixVal(Tail(tok), 10 * acc + DigitVal(Head(tok)))

\* parseFloat: the number the string starts with, NaN when it starts with
\* none (the empty string and undefined included).
ParseFloat(tok) ==
  IF tok = <<>> \/ Head(tok) \notin Digits THEN NaN ELSE Num(PrefixVal(tok, 0))

\* The k-th element of the destructured array: undefined past its end.
Field(toks, k) == IF k <= Len(toks) THEN toks[k] ELSE <<>>

\* The body of getResourceUsage: a rejected ps and a missing second line
\* (a TypeError on undefined) end in the catch.
GetResourceUsage(ps) ==
  IF ~ps.ok \/ Len(ps.lines) < 2 THEN ZeroUsage
  ELSE [memory |-> ParseFloat(Field(ps.lines[2], 2)),
        cpu |-> ParseFloat(Field(ps.lines[2], 1))]

\* getResourceUsage(pid) is called and ps answers.
UsagePs ==
  /\ sm.op = "idle"
  /\ \E p \in 1..MaxPid :
     \E out \in {NoPs, [ok |-> TRUE, lines |-> <<Header>>]}
                \cup {[ok |-> TRUE, lines |-> <<Header, d>>] : d \in DataLines} :
       sm' = [SmIdle EXCEPT !.op = "getResourceUsage", !.pc = "parse", !.pid = p, !.ps = out]
  /\ UNCHANGED <<cliv, registry, regKey, alive, clock, smServers, smCache, smLog>>

UsageParse ==
  /\ sm.op = "getResourceUsage" /\ sm.pc = "parse"
  /\ sm' = [sm EXCEPT !.pc = "done", !.usage = GetResourceUsage(sm.ps)]
  /\ UNCHANGED <<cliv, registry, regKey, alive, clock, smServers, smCache, smLog>>

NextUsage == UsagePs \/ UsageParse \/ SmEnd

SpecUsage == Init /\ [][NextUsage]_vars

\* A token that is a number: digits only.
Numeric(tok) == tok # <<>> /\ \A k \in DOMAIN tok : tok[k] \in Digits
\* Output with a second line of two numbers.
Parsable(ps) ==
  /\ ps.ok /\ Len(ps.lines) >= 2
  /\ Numeric(Field(ps.lines[2], 1)) /\ Numeric(Field(ps.lines[2], 2))

\* C29: getResourceUsage returns numbers, never NaN, and returns the zero
\* usage whenever the output of ps cannot be parsed: when the second line is
\* missing and when one of its two fields is not a number.
C29_UsageZeroWhenUnparsable ==
  (sm.op = "getResourceUsage" /\ sm.pc = "done") =>
     /\ ~sm.usage.cpu.nan /\ ~sm.usage.memory.nan
     /\ ~Parsable(sm.ps) => sm.usage = ZeroUsage

\* The part that holds: a failed ps and a missing second line give zero.
UsageZeroWhenLineMissing ==
  (sm.op = "getResourceUsage" /\ sm.pc = "done" /\ (~sm.ps.ok \/ Len(sm.ps.lines) < 2))
     => sm.usage = ZeroUsage

\* C25, first part: the history is never longer than the current maxHistory.
C25_HistoryWithinMax == Len(smLog.list) <= smLog.maxHistory

\* C25, second part: the history is newest first.
HistoryNewestFirst ==
  \A j, k \in DOMAIN smLog.list : j < k => smLog.list[j].timestamp > smLog.list[k].timestamp

\* C26: a call of addNotification made while notifications are disabled, or
\* with a type that is not among the configured types, leaves the list and
\* the notification file as they are.
C26_FilteredRecordIsNoOp ==
  [][(/\ sm.pc = "addNotification" /\ sm'.pc = "done"
      /\ (~smLog.enabled \/ sm.notes[1] \notin smLog.types))
       => (smLog'.list = smLog.list /\ smLog'.file = smLog.file)]_vars

C26_Witness ==
  /\ sm.op = "addNotification" /\ sm.pc = "done"
  /\ smLog.enabled /\ sm.notes[1] \notin smLog.types
  /\ smLog.list # <<>> /\ smLog.file = smLog.list

IsrPcs == {"isr_pid", "isr_kill", "isr_load", "isr_save"}

\* C27: isServerRunning answers true only when the store has a record of
\* the name and process.kill(pid, 0) returned; whatever kill throws (ESRCH,
\* EPERM) the answer is false; and with no record the answer is false and
\* the store is not written.
C27_ProbeFalseOnAnyError ==
  [][\A i \in Invs : inv'[i] # inv[i] =>
       /\ (pc(i) = "isr_pid" /\ FindPid(store, inv[i].name) = 0)
            => (~inv'[i].running /\ store' = store /\ inv'[i].stack = Tail(inv[i].stack))
       /\ (pc(i) \in IsrPcs /\ inv'[i].stack = Tail(inv[i].stack) /\ inv'[i].running)
            => (pc(i) = "isr_kill" /\ inv[i].pid # 0 /\ Signal0(inv[i].pid) = {"ok"})
       /\ (pc(i) = "isr_kill" /\ "ok" \notin Signal0(inv[i].pid))
            => Head(inv'[i].stack) = "isr_load"
       /\ pc(i) = "isr_save" => ~inv'[i].running]_vars

\* A probe has found a record whose pid could not be signalled.
C27_Witness ==
  \E i \in Invs :
    /\ Done(i, "status") /\ inv[i].name \in inv[i].evicted
    /\ inv[i].row.name = inv[i].name /\ ~inv[i].row.running

\* C28: every row status prints carries the running flag, the pid of the
\* record or none, and a health that is OK with the usage figures or
\* NOT_RESPONDING when the server is running, and NOT_RUNNING when it is not.
C28_StatusRowHealth ==
  \A i \in Invs :
    (inv[i].op = "status" /\ inv[i].row.name # "") =>
       /\ inv[i].row.running => inv[i].row.health \in {"OK", "NOT_RESPONDING"}
       /\ ~inv[i].row.running => inv[i].row.health = "NOT_RUNNING"

\* What status prints for a server that is not running is N/A.
StatusRowStopped ==
  \A i \in Invs :
    (inv[i].op = "status" /\ inv[i].row.name # "" /\ ~inv[i].row.running)
       => (inv[i].row.health = "N/A" /\ inv[i].row.pid = 0)

\* C30: while mcp_processes.json is missing, unparseable, or JSON that is
\* no array, loadProcessStore gives the empty list and no error: no command
\* ends with an error of the store, stop finds the server not running, and
\* status prints it stopped with no pid.
C30_LoadFailsSoft ==
  \A i \in Invs :
    (storeDoc # "list" /\ pc(i) = "done") =>
       /\ inv[i].out # "storeerror"
       /\ inv[i].op = "stop" => inv[i].out = "notrunning"
       /\ (inv[i].op = "status" /\ inv[i].name \in DOMAIN inv[i].cfg /\ inv[i].cfgKey)
            => (inv[i].row.name = inv[i].name /\ ~inv[i].row.running /\ inv[i].row.pid = 0)

\* The part that holds: a missing or unparseable document is the empty list.
LoadFailsSoftUnlessParsed ==
  \A i \in Invs :
    (storeDoc \in {"missing", "unparseable"} /\ pc(i) = "done") =>
       /\ inv[i].out # "storeerror"
       /\ inv[i].op = "stop" => inv[i].out = "notrunning"
       /\ (inv[i].op = "status" /\ inv[i].name \in DOMAIN inv[i].cfg /\ inv[i].cfgKey)
            => (inv[i].row.name = inv[i].name /\ ~inv[i].row.running /\ inv[i].row.pid = 0)

\* C31: when startServer finds the server already alive, the notification
\* it passes to addNotification has the severity info.
C31_AlreadyRunningIsInfo ==
  (sm.op = "startServer" /\ sm.pc = "done" /\ sm.res = "existing")
     => sm.notes = <<"info">>

\* What startServer passes for a server already alive is a warning, which
\* the default preferences record.
SM_AlreadyRunningIsWarning ==
  (sm.op = "startServer" /\ sm.pc = "done" /\ sm.res = "existing")
     => sm.notes = <<"warning">>

\* Two names hold a record with the same pid.
SharedPid(procs) ==
  \E j, k \in DOMAIN procs : procs[j].pid = procs[k].pid /\ procs[j].serverName # procs[k].serverName

\* C32: the write of stop and the eviction of isServerRunning for a name
\* leave the records of every other name as they are, and the signal of
\* stop goes to the pid recorded for the name.
C32_OtherRecordsUntouched ==
  [][\A i \in Invs :
       /\ (pc(i) \in {"stop_save", "isr_save"} /\ store' # store)
            => \A n \in Names \ {inv[i].name} : RecordsOf(store', n) = RecordsOf(store, n)
       /\ (pc(i) = "stop_kill" /\ inv'[i].sigs # inv[i].sigs)
            => inv'[i].sigs[Len(inv'[i].sigs)][1] = FindPid(store, inv[i].name)]_vars

\* The same while no two names hold a record with the same pid.
OtherRecordsUntouchedUnlessShared ==
  [][\A i \in Invs :
       (pc(i) \in {"stop_save", "isr_save"} /\ store' # store /\ ~SharedPid(store))
            => \A n \in Names \ {inv[i].name} : RecordsOf(store', n) = RecordsOf(store, n)]_vars

\* C33: a server reported stopped has no live process; in particular, when
\* stop reports `Stopped server`, the process it signalled is dead.
C33_StoppedMeansDead ==
  \A i \in Invs :
    (Done(i, "stop") /\ inv[i].out = "stopped") =>
       \A k \in DOMAIN inv[i].sigs :
          inv[i].sigs[k][2] = "SIGTERM" => inv[i].sigs[k][1] \notin alive

\* ServerManager.stopServer returns true with the process dead or killed.
SM_StoppedMeansDead ==
  (sm.pc = "done" /\ sm.op = "stopServer" /\ sm.res = "true") => sm.pid \notin alive

\* C34: whenever no command is in progress, every record of the store
\* carries the name of a server the registry holds.
C34_RecordsAreRegistered ==
  (\A i \in Invs : pc(i) \in {"idle", "done"})
     => \A k \in DOMAIN store : store[k].serverName \in DOMAIN registry

\* The same of every command but clean.
RecordsAreRegisteredUnlessCleaned ==
  [][(\A i \in Invs : inv[i].op # "clean")
       => (\A k \in DOMAIN store' : store'[k].serverName \in DOMAIN registry')
          \/ ~(\A k \in DOMAIN store : store[k].serverName \in DOMAIN registry)]_vars

\* C35: every record written to the store carries a pid a successful spawn
\* returned: start appends the pid of the child it spawned and never a
\* record without one, so that looking a record's name up gives a pid.
C35_RecordsCarrySpawnedPid ==
  [][/\ \A k \in DOMAIN store' :
          /\ store'[k].pid \in Pids
          /\ FindPid(store', store'[k].serverName) \in Pids
     /\ \A i \in Invs : (pc(i) = "start_save" /\ store' # store) =>
          /\ inv[i].child \in Pids /\ inv[i].spawns = 1
          /\ store'[Len(store')].pid = inv[i].child]_vars

C35_Witness ==
  \E i \in Invs :
    /\ Done(i, "start") /\ inv[i].out = "started" /\ inv[i].child \in Pids
    /\ \E k \in DOMAIN store : store[k].pid = inv[i].child /\ store[k].serverName = inv[i].arg

\* C36: a row of status or list never shows a server stopped together with
\* a pid, nor running without one.
C36_RowConsistent ==
  \A i \in Invs :
    (inv[i].op \in {"status", "list"} /\ inv[i].row.name # "")
       => (inv[i].row.running <=> inv[i].row.pid # 0)

\* C37: clean removes the install directory of no server that is alive,
\* whatever directories the entries of the stopped servers name.
C37_CleanSparesRunning ==
  [][\A i \in Invs : pc(i) = "cl_chk" =>
       \A n \in DOMAIN registry :
          (FindPid(store, n) \in alive /\ registry[n].dir \in dirs)
             => registry[n].dir \in dirs']_vars

\* The same while the directories of the entries are apart.
CleanSparesRunningApart ==
  [][\A i \in Invs : pc(i) = "cl_chk" =>
       \A n \in DOMAIN registry :
          (/\ FindPid(store, n) \in alive /\ registry[n].dir \in dirs
           /\ \A m \in DOMAIN registry \ {n} : registry[n].dir \notin Under(registry[m].dir))
             => registry[n].dir \in dirs']_vars

\* C38: when clean ends, a server whose files it removed is no longer in the
\* registry on disk, and an entry it could not process has kept no other
\* stopped server from being cleaned.
C38_CleanRemovesFilesAndEntryTogether ==
  \A i \in Invs : Done(i, "clean") =>
     /\ \A k \in DOMAIN inv[i].cleaned : inv[i].cleaned[k] \notin DOMAIN registry
     /\ \A n \in DOMAIN inv[i].reg0 :
          (inv[i].reg0[n].dir # "" /\ RecordsOf(inv[i].store0, n) = <<>>)
             => n \notin DOMAIN registry

\* The same while every entry has an args[0].
CleanRemovesFilesAndEntryWithArgs ==
  \A i \in Invs :
    (Done(i, "clean") /\ \A n \in DOMAIN inv[i].reg0 : inv[i].reg0[n].dir # "") =>
       /\ \A k \in DOMAIN inv[i].cleaned : inv[i].cleaned[k] \notin DOMAIN registry
       /\ \A n \in DOMAIN inv[i].reg0 :
            RecordsOf(inv[i].store0, n) = <<>> => n \notin DOMAIN registry

====
